---- MODULE Spec2Model ----
(***************************************************************************)
(* Model of pydis: the marshal primitives of pydis/marshal/load.py         *)
(* (r_short, read_long, load_long) and the disassembly pipeline of         *)
(* pydis/disassemble.py (line_no_table, _unpack_wordcode, findlabels,      *)
(* _wordcode).                                                             *)
(*                                                                         *)
(* Python values are represented as follows.                               *)
(*   - a byte string is a sequence of code points 0..255; indexing it      *)
(*     gives a one-element string, and ord() maps a one-element string to  *)
(*     its code point and raises TypeError on any other length;            *)
(*   - an int that can exceed 31 bits (read_long) is a pair of base-2^16   *)
(*     limbs [hi, lo] standing for hi * 2^16 + lo, 0 <= lo < 2^16;         *)
(*   - None / int / str values handed to an Instruction are records        *)
(*     [t, i, s];                                                          *)
(*   - an optional int (None or n) is <<>> or <<n>>;                       *)
(*   - the outcome of a call is [kind, exc, val]: a returned value or the  *)
(*     exception that left the call.                                       *)
(***************************************************************************)
EXTENDS Integers, Sequences, FiniteSets, TLC

VARIABLES buf, pos, start, op, result,
          co_firstlineno, co_lnotab, emitted,
          co_code, unpacked, labels, linestarts, lis, pc

vars == <<buf, pos, start, op, result,
          co_firstlineno, co_lnotab, emitted,
          co_code, unpacked, labels, linestarts, lis, pc>>

marshalVars == <<buf, pos, start, op, result>>
lnotabVars == <<co_firstlineno, co_lnotab, emitted>>
disVars == <<co_code, unpacked, labels, linestarts, lis, pc>>

(***************************************************************************)
(* Bounds                                                                  *)
(***************************************************************************)
MaxBuf == 6
MaxPairs == 3
MaxWords == 3

ByteVals == {0, 1, 128, 255}

RECURSIVE SeqsUpTo(_, _)
SeqsUpTo(S, n) ==
    IF n = 0 THEN {<<>>}
    ELSE LET shorter == SeqsUpTo(S, n - 1)
         IN  shorter \cup {Append(s, x) : s \in {t \in shorter : Len(t) = n - 1}, x \in S}

(***************************************************************************)
(* Python integer operators                                                *)
(***************************************************************************)
RECURSIVE Pow2(_)
Pow2(k) == IF k = 0 THEN 1 ELSE 2 * Pow2(k - 1)

RECURSIVE BitOr(_, _)
BitOr(a, b) ==
    IF a = 0 THEN b
    ELSE IF b = 0 THEN a
    ELSE (IF a % 2 = 1 \/ b % 2 = 1 THEN 1 ELSE 0) + 2 * BitOr(a \div 2, b \div 2)

RECURSIVE BitAnd(_, _)
BitAnd(a, b) ==
    IF a = 0 \/ b = 0 THEN 0
    ELSE (IF a % 2 = 1 /\ b % 2 = 1 THEN 1 ELSE 0) + 2 * BitAnd(a \div 2, b \div 2)

Shl(a, k) == a * Pow2(k)

\* Limb arithmetic for ints wider than 31 bits: [hi, lo] is hi * 2^16 + lo.
Limb == 65536

Big(h, l) == [hi |-> h, lo |-> l]

\* v << k for a byte v
BigShl(v, k) ==
    IF k >= 16 THEN Big(Shl(v, k - 16), 0)
    ELSE Big(Shl(v, k) \div Limb, Shl(v, k) % Limb)

\* x | y for non-negative x, y
BigOr(x, y) == Big(BitOr(x.hi, y.hi), BitOr(x.lo, y.lo))

\* x - y
BigSub(x, y) ==
    IF x.lo >= y.lo THEN Big(x.hi - y.hi, x.lo - y.lo)
    ELSE Big(x.hi - y.hi - 1, x.lo - y.lo + Limb)

\* -x
BigNeg(x) == IF x.lo = 0 THEN Big(0 - x.hi, 0) ELSE Big(0 - x.hi - 1, Limb - x.lo)

\* x > 0
BigPos(x) == x.hi > 0 \/ (x.hi = 0 /\ x.lo > 0)

\* x < 0
BigIsNeg(x) == x.hi < 0

(***************************************************************************)
(* Outcomes                                                                *)
(***************************************************************************)
Value(v) == [kind |-> "value", exc |-> "", val |-> v]
Raise(e) == [kind |-> "error", exc |-> e, val |-> 0]
NoResult == [kind |-> "none", exc |-> "", val |-> 0]

(***************************************************************************)
(* pydis/marshal/load.py                                                   *)
(***************************************************************************)
Min(a, b) == IF a <= b THEN a ELSE b

\* self._read(n): the next n bytes of the file, fewer at end of file.  The
\* reader hands back a string whose items are one-character strings, the one
\* type for which both ord(self._read(1)) and ord(s[i]) are defined.
\* Gives the string read and the position after the read.
_read(b, p, n) ==
    [s |-> SubSeq(b, p + 1, Min(p + n, Len(b))), p |-> Min(p + n, Len(b))]

\* ord(c): the code point of a one-element string
ord(c) == IF Len(c) = 1 THEN Value(c[1]) ELSE Raise("TypeError")

\* s[i] on a string (i counted from 0)
Index(s, i) == IF i < Len(s) THEN Value(<<s[i + 1]>>) ELSE Raise("IndexError")

\* ord(s[i])
OrdAt(s, i) == IF Index(s, i).kind = "error" THEN Index(s, i) ELSE ord(Index(s, i).val)

\* Outcome and final read position of r_short at position p of b.
r_short(b, p) ==
    LET r1 == _read(b, p, 1)
        o1 == ord(r1.s)
        r2 == _read(b, r1.p, 1)
        o2 == ord(r2.s)
        x  == BitOr(o1.val, Shl(o2.val, 8))
    IN  IF o1.kind = "error" THEN [out |-> o1, p |-> r1.p]
        ELSE IF o2.kind = "error" THEN [out |-> o2, p |-> r2.p]
        ELSE IF BitAnd(x, 32768) # 0 THEN [out |-> Value(x - 65536), p |-> r2.p]
        ELSE [out |-> Value(x), p |-> r2.p]

\* read_long without the sign reinterpretation
read_long_unsigned(b, p) ==
    LET r == _read(b, p, 4)
        a == OrdAt(r.s, 0)
        bb == OrdAt(r.s, 1)
        c == OrdAt(r.s, 2)
        d == OrdAt(r.s, 3)
        x == BigOr(BigOr(BigOr(BigShl(a.val, 0), BigShl(bb.val, 8)),
                         BigShl(c.val, 16)), BigShl(d.val, 24))
    IN  IF a.kind = "error" THEN [out |-> a, p |-> r.p]
        ELSE IF bb.kind = "error" THEN [out |-> bb, p |-> r.p]
        ELSE IF c.kind = "error" THEN [out |-> c, p |-> r.p]
        ELSE IF d.kind = "error" THEN [out |-> d, p |-> r.p]
        ELSE [out |-> Value(x), p |-> r.p]

\* Outcome and final read position of read_long at position p of b.
read_long(b, p) ==
    LET r == _read(b, p, 4)
        a == OrdAt(r.s, 0)
        bb == OrdAt(r.s, 1)
        c == OrdAt(r.s, 2)
        d == OrdAt(r.s, 3)
        x == BigOr(BigOr(BigOr(BigShl(a.val, 0), BigShl(bb.val, 8)),
                         BigShl(c.val, 16)), BigShl(d.val, 24))
    IN  IF a.kind = "error" THEN [out |-> a, p |-> r.p]
        ELSE IF bb.kind = "error" THEN [out |-> bb, p |-> r.p]
        ELSE IF c.kind = "error" THEN [out |-> c, p |-> r.p]
        ELSE IF d.kind = "error" THEN [out |-> d, p |-> r.p]
        ELSE IF BitAnd(d.val, 128) # 0 /\ BigPos(x)
             THEN [out |-> Value(BigNeg(BigSub(Big(Limb, 0), x))), p |-> r.p]
        ELSE [out |-> Value(x), p |-> r.p]

\* Outcome and final read position of load_long at position p of b.
\* The loop bound is the call abc(digit_size); no name abc is bound in the
\* module or in the builtins, so evaluating it raises NameError before the
\* first digit is read.
load_long(b, p) ==
    LET digit_size == read_long(b, p)
        sign == IF BigIsNeg(digit_size.out.val) THEN 1 ELSE 0 - 1
    IN  IF digit_size.out.kind = "error" THEN digit_size
        ELSE [out |-> Raise("NameError"), p |-> digit_size.p]

Bufs == SeqsUpTo(ByteVals, MaxBuf)

InitMarshal ==
    /\ buf \in Bufs
    /\ pos = 0
    /\ start = 0
    /\ op = "none"
    /\ result = NoResult
    /\ co_firstlineno = 1
    /\ co_lnotab = <<>>
    /\ emitted = NoResult
    /\ co_code = <<>>
    /\ unpacked = <<>>
    /\ labels = <<>>
    /\ linestarts = <<>>
    /\ lis = NoResult
    /\ pc = "idle"

\* An exception leaves the decoder: no further read follows it.
Call_r_short ==
    /\ result.kind # "error"
    /\ start' = pos
    /\ op' = "r_short"
    /\ result' = r_short(buf, pos).out
    /\ pos' = r_short(buf, pos).p
    /\ UNCHANGED <<buf, lnotabVars, disVars>>

Call_read_long ==
    /\ result.kind # "error"
    /\ start' = pos
    /\ op' = "read_long"
    /\ result' = read_long(buf, pos).out
    /\ pos' = read_long(buf, pos).p
    /\ UNCHANGED <<buf, lnotabVars, disVars>>

Call_load_long ==
    /\ result.kind # "error"
    /\ start' = pos
    /\ op' = "load_long"
    /\ result' = load_long(buf, pos).out
    /\ pos' = load_long(buf, pos).p
    /\ UNCHANGED <<buf, lnotabVars, disVars>>

NextMarshal == Call_r_short \/ Call_read_long \/ Call_load_long

SpecMarshal == InitMarshal /\ [][NextMarshal]_vars

(***************************************************************************)
(* pydis/disassemble.py: line_no_table                                     *)
(***************************************************************************)
\* State of the generator: running address, running line, last line yielded
\* (<<>> for None) and the pairs yielded so far.
LnoStart(firstlineno) ==
    [addr |-> 0, lineno |-> firstlineno, last_lineno |-> <<>>, out |-> <<>>]

\* One iteration that applies the line increment before the address is yielded
LnoStepLineFirst(st, byte_incr, line_incr) ==
    LET ln == st.lineno + (IF line_incr >= 128 THEN line_incr - 256 ELSE line_incr)
        yields == byte_incr # 0 /\ st.last_lineno # <<ln>>
    IN  [addr |-> IF byte_incr # 0 THEN st.addr + byte_incr ELSE st.addr,
         lineno |-> ln,
         last_lineno |-> IF yields THEN <<ln>> ELSE st.last_lineno,
         out |-> IF yields THEN Append(st.out, <<st.addr, ln>>) ELSE st.out]

\* One iteration of the loop over zip(byte_increments, line_increments)
LnoStep(st, byte_incr, line_incr) ==
    LET yields == byte_incr # 0 /\ st.last_lineno # <<st.lineno>>
    IN  [addr |-> IF byte_incr # 0 THEN st.addr + byte_incr ELSE st.addr,
         lineno |-> st.lineno + (IF line_incr >= 128 THEN line_incr - 256 ELSE line_incr),
         last_lineno |-> IF yields THEN <<st.lineno>> ELSE st.last_lineno,
         out |-> IF yields THEN Append(st.out, <<st.addr, st.lineno>>) ELSE st.out]

\* The loop from the k-th pair on; zip stops at the shorter of co_lnotab[0::2]
\* and co_lnotab[1::2].
RECURSIVE LnoLoop(_, _, _)
LnoLoop(tab, k, st) ==
    IF k > Len(tab) \div 2 THEN st
    ELSE LnoLoop(tab, k + 1, LnoStep(st, tab[2 * k - 1], tab[2 * k]))

\* The yield after the loop, without the comparison with the last line
LnoFinishAlways(st) == Append(st.out, <<st.addr, st.lineno>>)

\* The yield after the loop
LnoFinish(st) ==
    IF st.last_lineno # <<st.lineno>> THEN Append(st.out, <<st.addr, st.lineno>>)
    ELSE st.out

\* The sequence of (offset, line) pairs the generator yields
line_no_table(firstlineno, tab) == LnoFinish(LnoLoop(tab, 1, LnoStart(firstlineno)))

\* dict(pairs): a later pair replaces an earlier one with the same key
Dict(pairs) ==
    [k \in {pairs[i][1] : i \in DOMAIN pairs} |->
        LET last == CHOOSE i \in DOMAIN pairs :
                        /\ pairs[i][1] = k
                        /\ \A j \in DOMAIN pairs : pairs[j][1] = k => j <= i
        IN  pairs[last][2]]

LnoBytes == {0, 1, 128, 255}
FirstLines == {1, 7}

\* the table of the docstring of line_no_table
ExampleTable == <<0, 1, 3, 1, 7, 1, 34, 22, 255, 0, 77, 39, 0, 127, 24, 97>>

Lnotabs == SeqsUpTo(LnoBytes, 2 * MaxPairs) \cup {ExampleTable}

InitLnotab ==
    /\ buf = <<>>
    /\ pos = 0
    /\ start = 0
    /\ op = "none"
    /\ result = NoResult
    /\ co_firstlineno \in FirstLines
    /\ co_lnotab \in Lnotabs
    /\ emitted = NoResult
    /\ co_code = <<>>
    /\ unpacked = <<>>
    /\ labels = <<>>
    /\ linestarts = <<>>
    /\ lis = NoResult
    /\ pc = "idle"

Call_line_no_table ==
    /\ emitted.kind = "none"
    /\ emitted' = Value(line_no_table(co_firstlineno, co_lnotab))
    /\ UNCHANGED <<co_firstlineno, co_lnotab, marshalVars, disVars>>

NextLnotab == Call_line_no_table

SpecLnotab == InitLnotab /\ [][NextLnotab]_vars

(***************************************************************************)
(* pydis.opcodes: the opcode table consumed by the disassembler            *)
(***************************************************************************)
NOP == 9
LOAD_CONST == 100
LOAD_NAME == 101
COMPARE_OP == 107
JUMP_FORWARD == 110
JUMP_ABSOLUTE == 113
LOAD_FAST == 124
CALL_FUNCTION == 131
MAKE_FUNCTION == 132
LOAD_DEREF == 136
EXTENDED_ARG == 144

Opcodes == {NOP, LOAD_CONST, LOAD_NAME, COMPARE_OP, JUMP_FORWARD, JUMP_ABSOLUTE,
            LOAD_FAST, CALL_FUNCTION, MAKE_FUNCTION, LOAD_DEREF, EXTENDED_ARG}

has_arg(opc) == opc >= 90
has_const(opc) == opc = LOAD_CONST
has_name(opc) == opc = LOAD_NAME
has_local(opc) == opc = LOAD_FAST
has_free(opc) == opc = LOAD_DEREF
has_cmp(opc) == opc = COMPARE_OP
has_jrel(opc) == opc = JUMP_FORWARD
has_jabs(opc) == opc = JUMP_ABSOLUTE
is_make_function(opc) == opc = MAKE_FUNCTION
is_extended_arg(opc) == opc = EXTENDED_ARG

CMP_OP == <<"<", "<=", "==", "!=", ">", ">=", "in", "not in", "is", "is not",
            "exception match", "BAD">>

MAKE_FUNCTION_FLAGS == <<"defaults", "kwdefaults", "annotations", "closure">>

(***************************************************************************)
(* Python values handed to an Instruction                                  *)
(***************************************************************************)
PyNone == [t |-> "None", i |-> 0, s |-> ""]
PyInt(n) == [t |-> "int", i |-> n, s |-> ""]
PyStr(x) == [t |-> "str", i |-> 0, s |-> x]

\* repr(v)
repr(v) ==
    IF v.t = "None" THEN "None"
    ELSE IF v.t = "int" THEN ToString(v.i)
    ELSE "'" \o v.s \o "'"

\* bool(arg) for an optional int: None and 0 are false
Truthy(arg) == arg # <<>> /\ arg[1] # 0

\* seq[i] on a tuple (i counted from 0, i >= 0)
Item(seq, i) == IF i < Len(seq) THEN Value(seq[i + 1]) ELSE Raise("IndexError")

(***************************************************************************)
(* pydis/disassemble.py: DecodeCode                                        *)
(***************************************************************************)
\* The side tables of the code object under disassembly
co_consts == <<PyNone, PyStr("a"), PyInt(7)>>
co_names == <<"print", "x", "y">>
co_varnames == <<"self", "n", "m">>
co_cellvars == <<"c">>
co_freevars == <<"f", "g">>
freevars == co_cellvars \o co_freevars

\* _unpack_wordcode from byte index i on, with the accumulator extended_arg
RECURSIVE UnpackFrom(_, _, _, _)
UnpackFrom(code, i, extended_arg, out) ==
    IF i >= Len(code) THEN out
    ELSE LET op_code == code[i + 1]
             arg == IF has_arg(op_code) THEN <<BitOr(code[i + 2], extended_arg)>> ELSE <<>>
             next_extended ==
                 IF has_arg(op_code)
                 THEN (IF is_extended_arg(op_code) THEN Shl(arg[1], 8) ELSE 0)
                 ELSE extended_arg
         IN  UnpackFrom(code, i + 2, next_extended,
                        Append(out, [offset |-> i, op_code |-> op_code, arg |-> arg]))

\* The (offset, op_code, arg) triples the generator yields
_unpack_wordcode(code) == UnpackFrom(code, 0, 0, <<>>)

InList(x, lst) == \E i \in DOMAIN lst : lst[i] = x

\* findlabels from the k-th triple on
RECURSIVE FindLabelsFrom(_, _, _)
FindLabelsFrom(words, k, lbls) ==
    IF k > Len(words) THEN lbls
    ELSE LET w == words[k]
             isjump == has_jrel(w.op_code) \/ has_jabs(w.op_code)
             target == IF has_jrel(w.op_code) THEN w.offset + 2 + w.arg[1] ELSE w.arg[1]
         IN  IF Truthy(w.arg) /\ isjump /\ ~InList(target, lbls)
             THEN FindLabelsFrom(words, k + 1, Append(lbls, target))
             ELSE FindLabelsFrom(words, k + 1, lbls)

findlabels(words) == FindLabelsFrom(words, 1, <<>>)

\* (argval, argrepr) of _get_const_info
_get_const_info(const_index) ==
    LET c == Item(co_consts, const_index)
    IN  IF c.kind = "error" THEN c
        ELSE Value([argval |-> c.val, argrepr |-> repr(c.val)])

\* (argval, argrepr) of _get_name_info
_get_name_info(name_index, name_list) ==
    LET n == Item(name_list, name_index)
    IN  IF n.kind = "error" THEN n
        ELSE Value([argval |-> PyStr(n.val), argrepr |-> n.val])

\* ', '.join(s for i, s in enumerate(MAKE_FUNCTION_FLAGS) if arg & (1 << i))
RECURSIVE JoinFlags(_, _, _)
JoinFlags(arg, i, acc) ==
    IF i >= Len(MAKE_FUNCTION_FLAGS) THEN acc
    ELSE IF BitAnd(arg, Shl(1, i)) # 0
         THEN JoinFlags(arg, i + 1,
                        IF acc = "" THEN MAKE_FUNCTION_FLAGS[i + 1]
                        ELSE acc \o ", " \o MAKE_FUNCTION_FLAGS[i + 1])
    ELSE JoinFlags(arg, i + 1, acc)

\* (argval, argrepr) computed by the body of the loop of _wordcode
Resolve(op_code, arg) ==
    IF ~Truthy(arg) THEN Value([argval |-> PyNone, argrepr |-> ""])
    ELSE IF has_const(op_code) THEN _get_const_info(arg[1])
    ELSE IF has_name(op_code) THEN _get_name_info(arg[1], co_names)
    ELSE IF has_local(op_code) THEN _get_name_info(arg[1], co_varnames)
    ELSE IF has_free(op_code) THEN _get_name_info(arg[1], freevars)
    ELSE IF has_cmp(op_code)
         THEN (IF Item(CMP_OP, arg[1]).kind = "error" THEN Item(CMP_OP, arg[1])
               ELSE Value([argval |-> PyStr(CMP_OP[arg[1] + 1]),
                           argrepr |-> repr(PyStr(CMP_OP[arg[1] + 1]))]))
    ELSE IF is_make_function(op_code)
         THEN Value([argval |-> PyInt(arg[1]), argrepr |-> JoinFlags(arg[1], 0, "")])
    ELSE Value([argval |-> PyInt(arg[1]), argrepr |-> ""])

\* linestarts.get(offset, None)
DictGet(d, k) == IF k \in DOMAIN d THEN <<d[k]>> ELSE <<>>

\* op_code(offset, line_start, arg, argval, argrepr, is_jump_target)
Instruction(w, line_start, r, is_jump_target) ==
    [offset |-> w.offset, op_code |-> w.op_code, line |-> line_start, arg |-> w.arg,
     argval |-> r.argval, arg_repr |-> r.argrepr, is_jump_target |-> is_jump_target]

\* The loop of _wordcode from the k-th triple on: the list lis, or the exception
\* that leaves the loop
RECURSIVE BuildFrom(_, _, _, _, _)
BuildFrom(words, k, lbls, lines, out) ==
    IF k > Len(words) THEN Value(out)
    ELSE LET w == words[k]
             r == Resolve(w.op_code, w.arg)
         IN  IF r.kind = "error" THEN r
             ELSE BuildFrom(words, k + 1, lbls, lines,
                     Append(out, Instruction(w, DictGet(lines, w.offset), r.val,
                                             InList(w.offset, lbls))))

\* The column "Opcode argument" and "Opcode argument details" of _disassemble
ArgColumns(instr) ==
    IF instr.arg = <<>> THEN <<>>
    ELSE IF instr.arg_repr # "" THEN <<ToString(instr.arg[1]), "(" \o instr.arg_repr \o ")">>
    ELSE <<ToString(instr.arg[1])>>

Operands == {0, 2}

RECURSIVE Flatten(_)
Flatten(ws) == IF ws = <<>> THEN <<>> ELSE Head(ws) \o Flatten(Tail(ws))

Codes == {Flatten(ws) : ws \in SeqsUpTo(Opcodes \X Operands, MaxWords)}

InitDis ==
    /\ buf = <<>>
    /\ pos = 0
    /\ start = 0
    /\ op = "none"
    /\ result = NoResult
    /\ co_firstlineno = 1
    /\ co_lnotab \in {<<>>, <<2, 1>>}
    /\ emitted = NoResult
    /\ co_code \in Codes
    /\ unpacked = <<>>
    /\ labels = <<>>
    /\ linestarts = <<>>
    /\ lis = NoResult
    /\ pc = "idle"

\* self.labels = self.findlabels(unpacked_code=self._unpack_wordcode())
Wordcode_labels ==
    /\ pc = "idle"
    /\ unpacked' = _unpack_wordcode(co_code)
    /\ labels' = findlabels(_unpack_wordcode(co_code))
    /\ pc' = "labels"
    /\ UNCHANGED <<co_code, linestarts, lis, marshalVars, lnotabVars>>

\* self.linestarts = dict(line_no_table(self.code_object))
Wordcode_linestarts ==
    /\ pc = "labels"
    /\ linestarts' = Dict(line_no_table(co_firstlineno, co_lnotab))
    /\ pc' = "lines"
    /\ UNCHANGED <<co_code, unpacked, labels, lis, marshalVars, lnotabVars>>

\* the loop over a fresh self._unpack_wordcode() and the return of lis
Wordcode_instructions ==
    /\ pc = "lines"
    /\ lis' = BuildFrom(_unpack_wordcode(co_code), 1, labels, linestarts, <<>>)
    /\ pc' = "done"
    /\ UNCHANGED <<co_code, unpacked, labels, linestarts, marshalVars, lnotabVars>>

NextDis == Wordcode_labels \/ Wordcode_linestarts \/ Wordcode_instructions

SpecDis == InitDis /\ [][NextDis]_vars

(***************************************************************************)
(* Properties of the marshal primitives                                    *)
(***************************************************************************)
\* bytes left for the last call when it started
Avail == Len(buf) - start

\* i-th byte (from 0) seen by the last call
ByteAt(i) == buf[start + i + 1]

BigAbs(x) == IF BigIsNeg(x) THEN BigNeg(x) ELSE x

\* the digit count stored at the start of the last call's input
DigitCount == read_long(buf, start).out.val

\* i-th 16-bit word after the digit count
DigitAt(i) == ByteAt(4 + 2 * i) + 256 * ByteAt(5 + 2 * i)

RECURSIVE DigitSum(_)
DigitSum(n) == IF n = 0 THEN 0 ELSE DigitSum(n - 1) + DigitAt(n - 1) * Pow2(15 * (n - 1))

\* the input of the last call is a digit count n, |n| <= 2, followed by |n|
\* words below 2^15
WellFormedLong ==
    /\ Avail >= 4
    /\ BigAbs(DigitCount).hi = 0
    /\ BigAbs(DigitCount).lo <= 2
    /\ Avail >= 4 + 2 * BigAbs(DigitCount).lo
    /\ \A i \in 0 .. BigAbs(DigitCount).lo - 1 : DigitAt(i) < 32768

ExpectedLong ==
    IF BigIsNeg(DigitCount) THEN 0 - DigitSum(BigAbs(DigitCount).lo)
    ELSE DigitSum(BigAbs(DigitCount).lo)

\* C1: load_long on a digit count n followed by |n| 15-bit digits reads 4 + 2|n|
\* bytes and returns sign(n) * (d_0 | d_1 << 15 | ...).
C1_LoadLongValue ==
    (op = "load_long" /\ WellFormedLong) =>
        /\ result.kind = "value"
        /\ result.val = ExpectedLong
        /\ pos = start + 4 + 2 * BigAbs(DigitCount).lo

\* bytes the last call needs
Truncated ==
    \/ op = "r_short" /\ Avail < 2
    \/ op = "read_long" /\ Avail < 4
    \/ op = "load_long" /\ Avail < 4
    \/ /\ op = "load_long"
       /\ Avail >= 4
       /\ \/ BigAbs(DigitCount).hi > 0
          \/ BigAbs(DigitCount).lo > (Avail - 4) \div 2

\* C8: a decode step that finds fewer bytes than it needs ends in EndOfStream or
\* MalformedContainer.
C8_TruncatedIsEndOfStream ==
    Truncated => /\ result.kind = "error"
                 /\ result.exc \in {"EndOfStream", "MalformedContainer"}

IsExample == co_firstlineno = 1 /\ co_lnotab = ExampleTable

C10_StrictOffsetsDistinctLines ==
    emitted.kind = "value" =>
        /\ \A i \in 1 .. Len(emitted.val) - 1 :
              /\ emitted.val[i][1] < emitted.val[i + 1][1]
              /\ emitted.val[i][2] # emitted.val[i + 1][2]
        /\ Cardinality(DOMAIN Dict(emitted.val)) = Len(emitted.val)
        /\ \A i \in DOMAIN emitted.val :
              Dict(emitted.val)[emitted.val[i][1]] = emitted.val[i][2]

\* a table with a chained (255, 0) pair and a negative line delta has been
\* decoded
C10_Witness ==
    /\ emitted.kind = "value"
    /\ Len(co_lnotab) >= 6
    /\ co_lnotab[1] = 255 /\ co_lnotab[2] = 0
    /\ co_lnotab[3] = 255 /\ co_lnotab[4] = 255
    /\ co_lnotab[5] = 0 /\ co_lnotab[6] = 128
    /\ Len(emitted.val) = 2
    /\ emitted.val[2] = <<510, co_firstlineno - 129>>

(***************************************************************************)
(* Properties of the disassembler                                          *)
(***************************************************************************)
\* operand byte of the k-th word of the stream
OperandOf(k) == co_code[2 * k]

\* C3: the argument yielded for an argument-taking word is
\* operand | (E << 8), E being the argument of the word just before it when
\* that word is EXTENDED_ARG and 0 otherwise.
C3_ExtendsOnlyNextWord ==
    pc # "idle" =>
        \A k \in DOMAIN unpacked :
            has_arg(unpacked[k].op_code) =>
                unpacked[k].arg =
                    <<BitOr(OperandOf(k),
                            IF k > 1 /\ is_extended_arg(unpacked[k - 1].op_code)
                            THEN Shl(unpacked[k - 1].arg[1], 8) ELSE 0)>>

\* targets of the jump words among the yielded triples whose argument is present
JumpTargets ==
    {IF has_jrel(unpacked[k].op_code)
     THEN unpacked[k].offset + 2 + unpacked[k].arg[1]
     ELSE unpacked[k].arg[1] :
        k \in {j \in DOMAIN unpacked :
                  /\ unpacked[j].arg # <<>>
                  /\ has_jrel(unpacked[j].op_code) \/ has_jabs(unpacked[j].op_code)}}

\* C4: findlabels returns exactly the targets of the jump words whose argument
\* is present, each once.
C4_LabelsAreAllTargets ==
    pc # "idle" =>
        /\ {labels[i] : i \in DOMAIN labels} = JumpTargets
        /\ Cardinality(JumpTargets) = Len(labels)

\* C5: an Instruction whose opcode references a pool and whose argument is an
\* index in range of that pool carries the pool entry as resolved value, with
\* the constant's repr (const pool) or the bare name (name pools) as text.
C5_PoolEntryResolved ==
    (pc = "done" /\ lis.kind = "value") =>
        \A k \in DOMAIN lis.val :
            LET ins == lis.val[k]
            IN  ins.arg # <<>> =>
                  /\ (has_const(ins.op_code) /\ ins.arg[1] < Len(co_consts)) =>
                        /\ ins.argval = co_consts[ins.arg[1] + 1]
                        /\ ins.arg_repr = repr(co_consts[ins.arg[1] + 1])
                  /\ (has_name(ins.op_code) /\ ins.arg[1] < Len(co_names)) =>
                        /\ ins.argval = PyStr(co_names[ins.arg[1] + 1])
                        /\ ins.arg_repr = co_names[ins.arg[1] + 1]
                  /\ (has_local(ins.op_code) /\ ins.arg[1] < Len(co_varnames)) =>
                        /\ ins.argval = PyStr(co_varnames[ins.arg[1] + 1])
                        /\ ins.arg_repr = co_varnames[ins.arg[1] + 1]
                  /\ (has_free(ins.op_code) /\ ins.arg[1] < Len(freevars)) =>
                        /\ ins.argval = PyStr(freevars[ins.arg[1] + 1])
                        /\ ins.arg_repr = freevars[ins.arg[1] + 1]

NoResolver(opc) ==
    /\ has_arg(opc)
    /\ ~has_const(opc) /\ ~has_name(opc) /\ ~has_local(opc) /\ ~has_free(opc)
    /\ ~has_cmp(opc) /\ ~is_make_function(opc)

\* C6: an Instruction whose opcode takes an argument and has no resolver flag
\* carries the raw argument as resolved value and an empty arg_repr, so the
\* listing shows the raw number alone.
C6_RawArgumentOnly ==
    (pc = "done" /\ lis.kind = "value") =>
        \A k \in DOMAIN lis.val :
            LET ins == lis.val[k]
            IN  NoResolver(ins.op_code) =>
                  /\ ins.argval = PyInt(ins.arg[1])
                  /\ ins.arg_repr = ""
                  /\ ArgColumns(ins) = <<ToString(ins.arg[1])>>

\* C7: the instructions are built after the label list and the line table are
\* complete, and an Instruction is marked as jump target exactly when its
\* offset is the target of a jump word of the stream.
C7_MarkedIffTargeted ==
    /\ pc = "idle" => (labels = <<>> /\ lis.kind = "none")
    /\ pc \in {"labels", "lines"} => lis.kind = "none"
    /\ (pc = "done" /\ lis.kind = "value") =>
          \A k \in DOMAIN lis.val :
              lis.val[k].is_jump_target <=> lis.val[k].offset \in JumpTargets

====
